---- MODULE Spec2Model ----
(***************************************************************************)
(* A model of the two developer scripts of the repository:                 *)
(*   scripts/analyze_timings.py  parse_log_file, print_histogram           *)
(*   scripts/smart-clean.py      ask, main                                 *)
(*                                                                         *)
(* Three specifications share the module's variables:                      *)
(*   Spec       parse_log_file reading a log of at most MaxLines lines     *)
(*   SpecHist   print_histogram on a bounded list of durations             *)
(*   SpecClean  smart-clean's main on a bounded git clean listing          *)
(***************************************************************************)
EXTENDS Integers, Sequences, FiniteSets, TLC

\* ------------------------------------------------------------------ bounds
\* Number of lines of the log file.
MaxLines == 4

\* Test and step names that occur in the log.
Names == {"a", "b"}

\* Statuses a TEST ENDED marker carries.
Statuses == {"passed"}

\* The timestamp texts of the log: "bad" does not parse, "naive" is an
\* ISO-8601 time without a UTC offset, "utc" one with an offset.
TsForms == {"bad", "naive", "utc"}

VARIABLES
  pc,               \* "scan" inside the for loop, "done" after return, "raised"
  line_num,         \* number of lines read so far (the next enumerate index)
  line,             \* the line handled by the last iteration
  current_test,     \* reference to the open test dict (heap index), 0 for None
  step_stack,       \* list of {"name", "start"} dicts
  completed_tests,  \* list of references to test dicts
  all_steps,        \* list of step dicts
  heap,             \* the test dicts created so far, by reference
  pushed            \* history: every entry line 77 has appended to step_stack

\* print_histogram
VARIABLES
  hpc,              \* "call", "count" (the for loop of line 140), "print", "done"
  data,             \* the argument data
  bins,             \* the argument bins
  buckets,          \* the list buckets
  hi,               \* number of values the for loop has counted
  printed           \* the rows written to standard output

\* smart-clean main
VARIABLES
  cpc,              \* position in main
  result,           \* the CompletedProcess of git clean: returncode, stdout
  high_confidence,  \* list of paths
  other,            \* list of paths
  prompts,          \* the prompts shown so far with the answers read
  attempts,         \* the deletions attempted so far
  di                \* number of paths the current deletion loop has handled

pvars == <<pc, line_num, line, current_test, step_stack, completed_tests,
           all_steps, heap, pushed>>
hvars == <<hpc, data, bins, buckets, hi, printed>>
cvars == <<cpc, result, high_confidence, other, prompts, attempts, di>>
vars == <<pvars, hvars, cvars>>

\* Python's None for current_test.
None == 0

\* ------------------------------------------------------------- log lines
\* A line is modelled by the first of the four patterns that matches it
\* (kind), and the groups of that match: the timestamp text, the name and,
\* for TEST ENDED, the status.  The writer stamps line n with clock
\* reading n (an instant, whatever the offset it is written with), in one
\* of the forms of TsForms; a step record's start plus its duration is
\* therefore the index of the line that ended it.
NoLine == [kind |-> "none", ts |-> [form |-> "bad", clock |-> 0],
           name |-> "", status |-> ""]

OtherLines(n) ==
  {[kind |-> "Other", ts |-> [form |-> "bad", clock |-> n],
    name |-> "", status |-> ""]}

MarkerLines(n, k) ==
  [kind : {k}, ts : [form : TsForms, clock : {n}], name : Names,
   status : IF k = "TestEnd" THEN Statuses ELSE {""}]

TEST_START_RE(l) == l.kind = "TestStart"
TEST_END_RE(l) == l.kind = "TestEnd"
STEP_START_RE(l) == l.kind = "StepStart"
STEP_END_RE(l) == l.kind = "StepEnd"

\* ------------------------------------------------------------ datetimes
\* parser.isoparse: raises ValueError on text that is no ISO-8601 time,
\* else returns a datetime, timezone-aware iff the text has an offset.
isoparse(ts) ==
  IF ts.form = "bad"
  THEN [exc |-> "ValueError", val |-> [aware |-> FALSE, t |-> 0]]
  ELSE [exc |-> "", val |-> [aware |-> (ts.form = "utc"), t |-> ts.clock]]

\* (a - b).total_seconds(): datetime.__sub__ raises TypeError when one
\* operand is timezone-aware and the other is not.
total_seconds(a, b) ==
  IF a.aware # b.aware
  THEN [exc |-> "TypeError", val |-> 0]
  ELSE [exc |-> "", val |-> a.t - b.t]

\* A handler that swallows parse errors only: `except ValueError: pass`.
Catches_ValueErrorOnly(exc) == exc = "ValueError"

\* `except Exception: pass` catches every exception the handlers raise.
Catches(exc) == exc \in {"ValueError", "TypeError"}

\* pc after a handler whose try block ended with exception exc ("" for none).
AfterTry(exc) == IF exc = "" \/ Catches(exc) THEN "scan" ELSE "raised"

\* d[k] = v on a dict.
SetKey(d, k, v) == (k :> v) @@ d

\* ------------------------------------------------------------ the stack
\* The backward scan of lines 90-94: the index of the most recently pushed
\* entry named name, 0 when there is none (the code's -1).
RECURSIVE FindMatch(_, _, _)
FindMatch(stack, name, i) ==
  IF i = 0 THEN 0
  ELSE IF stack[i].name = name THEN i
  ELSE FindMatch(stack, name, i - 1)

\* list.pop(i): the list without its i-th entry.
Pop(stack, i) ==
  [j \in 1..(Len(stack) - 1) |-> IF j < i THEN stack[j] ELSE stack[j + 1]]

\* A TEST STARTED handler that leaves the open steps on the stack.
ResetStack_Keep(stack) == stack

\* step_stack after a TEST STARTED marker (line 50).
ResetStack(stack) == <<>>

\* ---------------------------------------------------------------- Init
\* parse_log_file, lines 28-32.
PInit ==
  /\ pc = "scan"
  /\ line_num = 0
  /\ line = NoLine
  /\ current_test = None
  /\ step_stack = <<>>
  /\ completed_tests = <<>>
  /\ all_steps = <<>>
  /\ heap = <<>>
  /\ pushed = <<>>

\* One iteration of the for loop reads line l (enumerate index line_num).
Read(l) ==
  /\ pc = "scan"
  /\ line_num < MaxLines
  /\ line' = l
  /\ line_num' = line_num + 1
  /\ UNCHANGED <<hvars, cvars>>

\* Lines 38-53.
TestStartLine ==
  \E l \in MarkerLines(line_num, "TestStart") :
    /\ Read(l)
    /\ TEST_START_RE(l)
    /\ LET r == isoparse(l.ts) IN
       IF r.exc # ""
       THEN /\ pc' = AfterTry(r.exc)
            /\ UNCHANGED <<current_test, step_stack, heap>>
       ELSE /\ heap' = Append(heap, [name |-> l.name, start |-> r.val,
                                     steps |-> <<>>, line |-> line_num])
            /\ current_test' = Len(heap) + 1
            /\ step_stack' = ResetStack(step_stack)
            /\ pc' = "scan"
    /\ UNCHANGED <<completed_tests, all_steps, pushed>>

\* The test dict after lines 62-64, given the duration.
Finalized(d, dt, duration, status) ==
  SetKey(SetKey(SetKey(d, "end", dt), "duration", duration), "status", status)

\* A TEST ENDED handler that does not compare the names.
EndsCurrent_AnyName(cur, h, name) == cur # None

\* Whether the TEST ENDED marker finalizes the open test (line 61).
EndsCurrent(cur, h, name) == cur # None /\ h[cur].name = name

\* A TEST ENDED handler that leaves current_test set.
ClearCurrent_Keep(cur) == cur

\* current_test after the test was appended (line 66).
ClearCurrent(cur) == None

\* Lines 55-69.
TestEndLine ==
  \E l \in MarkerLines(line_num, "TestEnd") :
    /\ Read(l)
    /\ TEST_END_RE(l)
    /\ LET r == isoparse(l.ts) IN
       IF r.exc # ""
       THEN /\ pc' = AfterTry(r.exc)
            /\ UNCHANGED <<current_test, completed_tests, heap>>
       ELSE IF ~EndsCurrent(current_test, heap, l.name)
       THEN /\ pc' = "scan"
            /\ UNCHANGED <<current_test, completed_tests, heap>>
       ELSE LET d == heap[current_test]
                s == total_seconds(r.val, d.start)
            IN IF s.exc # ""
               THEN \* line 62 was executed, line 63 raised
                    /\ heap' = [heap EXCEPT
                                  ![current_test] = SetKey(d, "end", r.val)]
                    /\ pc' = AfterTry(s.exc)
                    /\ UNCHANGED <<current_test, completed_tests>>
               ELSE /\ heap' = [heap EXCEPT ![current_test] =
                                  Finalized(d, r.val, s.val, l.status)]
                    /\ completed_tests' = Append(completed_tests, current_test)
                    /\ current_test' = ClearCurrent(current_test)
                    /\ pc' = "scan"
    /\ UNCHANGED <<step_stack, all_steps, pushed>>

\* Lines 71-80.
StepStartLine ==
  \E l \in MarkerLines(line_num, "StepStart") :
    /\ Read(l)
    /\ STEP_START_RE(l)
    /\ LET r == isoparse(l.ts) IN
       IF r.exc # ""
       THEN /\ pc' = AfterTry(r.exc)
            /\ UNCHANGED <<step_stack, pushed>>
       ELSE /\ step_stack' = Append(step_stack,
                                    [name |-> l.name, start |-> r.val])
            /\ pushed' = Append(pushed, [name |-> l.name, start |-> r.val])
            /\ pc' = "scan"
    /\ UNCHANGED <<current_test, completed_tests, all_steps, heap>>

\* The "test" key of a step dict (line 103).
StepTest(cur, h) == IF cur # None THEN h[cur].name ELSE "UNKNOWN"

\* A scan that takes the top of the stack whatever its name.
MatchIdx_Top(stack, name) == Len(stack)

\* Lines 90-94: match_idx after the scan.
MatchIdx(stack, name) == FindMatch(stack, name, Len(stack))

\* Lines 107-108: the step is appended to the open test's "steps" list.
AppendToTest(h, cur, full_step) ==
  IF cur # None
  THEN [h EXCEPT ![cur].steps = Append(@, full_step)]
  ELSE h

\* Lines 82-111.
StepEndLine ==
  \E l \in MarkerLines(line_num, "StepEnd") :
    /\ Read(l)
    /\ STEP_END_RE(l)
    /\ LET r == isoparse(l.ts)
           match_idx == MatchIdx(step_stack, l.name)
       IN
       IF r.exc # ""
       THEN /\ pc' = AfterTry(r.exc)
            /\ UNCHANGED <<step_stack, all_steps, heap>>
       ELSE IF match_idx = 0
       THEN /\ pc' = "scan"
            /\ UNCHANGED <<step_stack, all_steps, heap>>
       ELSE LET step_data == step_stack[match_idx]
                s == total_seconds(r.val, step_data.start)
                full_step == [name |-> l.name, duration |-> s.val,
                              test |-> StepTest(current_test, heap),
                              start |-> step_data.start]
            IN /\ step_stack' = Pop(step_stack, match_idx)
               /\ IF s.exc # ""
                  THEN \* line 97 was executed, line 98 raised
                       /\ pc' = AfterTry(s.exc)
                       /\ UNCHANGED <<all_steps, heap>>
                  ELSE /\ all_steps' = Append(all_steps, full_step)
                       /\ heap' = AppendToTest(heap, current_test, full_step)
                       /\ pc' = "scan"
    /\ UNCHANGED <<current_test, completed_tests, pushed>>

\* A line none of the four patterns matches.
OtherLine ==
  \E l \in OtherLines(line_num) :
    /\ Read(l)
    /\ ~TEST_START_RE(l) /\ ~TEST_END_RE(l)
    /\ ~STEP_START_RE(l) /\ ~STEP_END_RE(l)
    /\ UNCHANGED <<pc, current_test, step_stack, completed_tests, all_steps,
                   heap, pushed>>

\* The file is exhausted: line 113 returns.
EndOfFile ==
  /\ pc = "scan"
  /\ pc' = "done"
  /\ UNCHANGED <<line_num, line, current_test, step_stack, completed_tests,
                 all_steps, heap, pushed>>
  /\ UNCHANGED <<hvars, cvars>>

Next ==
  \/ TestStartLine
  \/ TestEndLine
  \/ StepStartLine
  \/ StepEndLine
  \/ OtherLine
  \/ EndOfFile

\* The variables of the other two programs while parse_log_file runs.
HIdle ==
  /\ hpc = "done" /\ data = <<>> /\ bins = 1 /\ buckets = <<>>
  /\ hi = 0 /\ printed = <<>>

CIdle ==
  /\ cpc = "done" /\ result = [returncode |-> 0, stdout |-> <<>>]
  /\ high_confidence = <<>> /\ other = <<>> /\ prompts = <<>>
  /\ attempts = <<>> /\ di = 0

PIdle ==
  /\ pc = "done" /\ line_num = 0 /\ line = NoLine /\ current_test = None
  /\ step_stack = <<>> /\ completed_tests = <<>> /\ all_steps = <<>>
  /\ heap = <<>> /\ pushed = <<>>

Init == PInit /\ HIdle /\ CIdle

Spec == Init /\ [][Next]_vars

\* ======================================================= print_histogram
\* Durations are modelled as whole numbers of a time unit, and the
\* quotients of lines 137 and 141 in exact arithmetic.
MaxData == 3
MaxVal == 3

\* The default of the parameter bins (line 129) and the widest bar
\* (line 146).
DefaultBins == 20
BarWidth == 40

BinsChoices == {1, 3, DefaultBins}

DataChoices == UNION {[1..n -> 0..MaxVal] : n \in 0..MaxData}

RECURSIVE SeqMin(_)
SeqMin(q) ==
  IF Len(q) = 1 THEN q[1]
  ELSE LET m == SeqMin(Tail(q)) IN IF q[1] < m THEN q[1] ELSE m

RECURSIVE SeqMax(_)
SeqMax(q) ==
  IF Len(q) = 1 THEN q[1]
  ELSE LET m == SeqMax(Tail(q)) IN IF q[1] > m THEN q[1] ELSE m

RECURSIVE SeqSum(_)
SeqSum(q) == IF q = <<>> THEN 0 ELSE q[1] + SeqSum(Tail(q))

\* Line 137: bin_width = (max_val - min_val) / bins, as a fraction.
BinWidth(min_val, max_val, b) == [num |-> max_val - min_val, den |-> b]

\* int(d / bin_width): the quotient truncated (d >= 0, bin_width > 0).
IntQuot(d, bin_width) == (d * bin_width.den) \div bin_width.num

\* Line 141 without the clamp.
Clamp_None(idx, b) == idx

\* min(idx, bins - 1) of line 141.
Clamp(idx, b) == IF idx < b - 1 THEN idx ELSE b - 1

\* Line 141.
BucketIdx(x, min_val, max_val, b) ==
  Clamp(IntQuot(x - min_val, BinWidth(min_val, max_val, b)), b)

HInit ==
  /\ hpc = "call"
  /\ data \in DataChoices
  /\ bins \in BinsChoices
  /\ buckets = <<>>
  /\ hi = 0
  /\ printed = <<>>

\* Lines 130-138: the two early returns, else the empty buckets.
HistEnter ==
  /\ hpc = "call"
  /\ IF data = <<>>
     THEN hpc' = "done" /\ UNCHANGED buckets
     ELSE IF SeqMin(data) = SeqMax(data)
     THEN hpc' = "done" /\ UNCHANGED buckets
     ELSE hpc' = "count" /\ buckets' = [i \in 1..bins |-> 0]
  /\ UNCHANGED <<data, bins, hi, printed>>
  /\ UNCHANGED <<pvars, cvars>>

\* Lines 140-142: one iteration of the for loop.  buckets[idx] with idx
\* beyond the list raises IndexError.
HistCount ==
  /\ hpc = "count"
  /\ hi < Len(data)
  /\ LET idx == BucketIdx(data[hi + 1], SeqMin(data), SeqMax(data), bins) IN
     IF idx + 1 \in DOMAIN buckets
     THEN /\ buckets' = [buckets EXCEPT ![idx + 1] = @ + 1]
          /\ hi' = hi + 1
          /\ hpc' = "count"
     ELSE /\ hpc' = "raised"
          /\ UNCHANGED <<buckets, hi>>
  /\ UNCHANGED <<data, bins, printed>>
  /\ UNCHANGED <<pvars, cvars>>

\* The rows of lines 148-154: one per non-empty bucket, with its index,
\* its count and the length of its bar.
RECURSIVE Rows(_, _, _)
Rows(b, i, max_count) ==
  IF i > Len(b) THEN <<>>
  ELSE (IF b[i] > 0
        THEN <<[bucket |-> i - 1, count |-> b[i],
                bar |-> (b[i] * BarWidth) \div max_count]>>
        ELSE <<>>)
       \o Rows(b, i + 1, max_count)

\* Lines 144-154.
HistPrint ==
  /\ hpc = "count"
  /\ hi = Len(data)
  /\ printed' = <<[title |-> Len(data)]>> \o Rows(buckets, 1, SeqMax(buckets))
  /\ hpc' = "done"
  /\ UNCHANGED <<data, bins, buckets, hi>>
  /\ UNCHANGED <<pvars, cvars>>

NextHist ==
  \/ HistEnter
  \/ HistCount
  \/ HistPrint

InitHist == PIdle /\ HInit /\ CIdle

SpecHist == InitHist /\ [][NextHist]_vars

\* ====================================================== smart-clean main
\* Number of lines git clean prints.
MaxOut == 2

\* Text is modelled as a sequence of tokens: a path by its components and
\* separators, an answer by its characters.
Blank == " "

RECURSIVE LStrip(_)
LStrip(t) ==
  IF t # <<>> /\ Head(t) = Blank THEN LStrip(Tail(t)) ELSE t

RECURSIVE RStrip(_)
RStrip(t) ==
  IF t # <<>> /\ t[Len(t)] = Blank THEN RStrip(SubSeq(t, 1, Len(t) - 1))
  ELSE t

\* str.strip()
Strip(t) == RStrip(LStrip(t))

LowerChar(c) ==
  CASE c = "Y" -> "y"
    [] c = "E" -> "e"
    [] c = "S" -> "s"
    [] c = "N" -> "n"
    [] OTHER -> c

\* str.lower()
Lower(t) == [i \in DOMAIN t |-> LowerChar(t[i])]

\* What input() gives: end of input, or the line typed.
AnswerTexts ==
  {<<"y">>, <<"Y">>, <<"y", "e", "s">>, <<"Y", "e", "S">>,
   <<Blank, "y", Blank>>, <<"n">>, <<>>, <<"y", "e">>}

Inputs ==
  {[eof |-> TRUE, text |-> <<>>]} \cup [eof : {FALSE}, text : AnswerTexts]

\* An ask that takes end of input for a yes.
ask_EofYes(inp) ==
  IF inp.eof THEN TRUE
  ELSE LET response == Lower(Strip(inp.text))
       IN response = <<"y">> \/ response = <<"y", "e", "s">>

\* Lines 38-43.
ask(inp) ==
  IF inp.eof THEN FALSE
  ELSE LET response == Lower(Strip(inp.text))
       IN response = <<"y">> \/ response = <<"y", "e", "s">>

\* Lines 14-24.
HIGH_CONFIDENCE_PATTERNS ==
  << <<"node_modules">>, <<"dist", "/">>, <<".turbo", "/">>,
     <<"coverage", "/">>, <<"playwright-report", "/">>,
     <<"test-results", "/">>, <<".tsbuildinfo">>, <<".husky", "/", "_">>,
     <<"src", "/", "generated">> >>

\* pat.search(p)
Search(pat, p) ==
  \E i \in 1..(Len(p) - Len(pat) + 1) : SubSeq(p, i, i + Len(pat) - 1) = pat

\* Line 75.
IsHighConfidence(p) ==
  \E k \in DOMAIN HIGH_CONFIDENCE_PATTERNS :
    Search(HIGH_CONFIDENCE_PATTERNS[k], p)

\* The lines git clean -n may print.
OutLines ==
  {<<"Would remove ", "node_modules", "/">>,
   <<"Would remove ", "dist", "/", "app.js">>,
   <<"Would remove ", "build", "/", "out.bin">>,
   <<Blank>>}

Results ==
  [returncode : {0, 1},
   stdout : UNION {[1..n -> OutLines] : n \in 0..MaxOut}]

NotPrefix(tok) == tok # "Would remove "

\* Line 67.
Cleaned(l) == Strip(SelectSeq(l, NotPrefix))

\* Lines 65-69.
RECURSIVE Paths(_)
Paths(out) ==
  IF out = <<>> THEN <<>>
  ELSE (IF Cleaned(Head(out)) # <<>> THEN <<Cleaned(Head(out))>> ELSE <<>>)
       \o Paths(Tail(out))

IsHigh(p) == IsHighConfidence(p)
IsOther(p) == ~IsHighConfidence(p)

CInit ==
  /\ cpc = "start"
  /\ result = [returncode |-> 0, stdout |-> <<>>]
  /\ high_confidence = <<>>
  /\ other = <<>>
  /\ prompts = <<>>
  /\ attempts = <<>>
  /\ di = 0

\* Lines 48-53.
GitClean ==
  /\ cpc = "start"
  /\ result' \in Results
  /\ cpc' = "ran"
  /\ UNCHANGED <<high_confidence, other, prompts, attempts, di>>
  /\ UNCHANGED <<pvars, hvars>>

\* Lines 55-78: exit on a failed git clean, return on an empty listing,
\* else fill the two buckets.
Classify ==
  /\ cpc = "ran"
  /\ IF result.returncode # 0
     THEN cpc' = "exit1" /\ UNCHANGED <<high_confidence, other>>
     ELSE IF Paths(result.stdout) = <<>>
     THEN cpc' = "done" /\ UNCHANGED <<high_confidence, other>>
     ELSE /\ high_confidence' = SelectSeq(Paths(result.stdout), IsHigh)
          /\ other' = SelectSeq(Paths(result.stdout), IsOther)
          /\ cpc' = "high"
  /\ UNCHANGED <<result, prompts, attempts, di>>
  /\ UNCHANGED <<pvars, hvars>>

\* Lines 81-88 and 99-102 (105-119 and 130-133): an empty bucket is passed
\* over, else the operator is asked.
AskBucket(here, bucket, items, deleting, after) ==
  /\ cpc = here
  /\ IF items = <<>>
     THEN cpc' = after /\ UNCHANGED prompts
     ELSE \E inp \in Inputs :
            /\ prompts' = Append(prompts, [bucket |-> bucket, input |-> inp])
            /\ cpc' = IF ask(inp) THEN deleting ELSE after
  /\ di' = 0
  /\ UNCHANGED <<result, high_confidence, other, attempts>>
  /\ UNCHANGED <<pvars, hvars>>

\* Lines 90-98 (121-129): one iteration of the deletion loop.  The path is
\* a directory or not, and rmtree or remove succeeds or raises; the
\* exception is reported and the loop goes on.
DeleteNext(here, bucket, items, after) ==
  /\ cpc = here
  /\ di < Len(items)
  /\ \E isdir \in BOOLEAN, ok \in BOOLEAN :
       attempts' = Append(attempts,
                          [bucket |-> bucket, path |-> items[di + 1],
                           call |-> IF isdir THEN "rmtree" ELSE "remove",
                           ok |-> ok])
  /\ di' = di + 1
  /\ cpc' = IF di + 1 = Len(items) THEN after ELSE here
  /\ UNCHANGED <<result, high_confidence, other, prompts>>
  /\ UNCHANGED <<pvars, hvars>>

AskHigh == AskBucket("high", "high", high_confidence, "del_high", "other")
DeleteHigh == DeleteNext("del_high", "high", high_confidence, "other")
AskOther == AskBucket("other", "other", other, "del_other", "done")
DeleteOther == DeleteNext("del_other", "other", other, "done")

NextClean ==
  \/ GitClean
  \/ Classify
  \/ AskHigh
  \/ DeleteHigh
  \/ AskOther
  \/ DeleteOther

InitClean == PIdle /\ HIdle /\ CInit

SpecClean == InitClean /\ [][NextClean]_vars

\* ======================================================== parse_log_file
\* Helpers of the properties below.
IsMarker(l) == l.kind \in {"TestStart", "TestEnd", "StepStart", "StepEnd"}
Parses(l) == l.ts.form # "bad"
OnStack(stack, name) == \E i \in DOMAIN stack : stack[i].name = name
Elems(q) == {q[i] : i \in DOMAIN q}

\* The step is an iteration of the for loop that handles a line of kind k.
Handles(k) == line_num' = line_num + 1 /\ line'.kind = k

\* The clock reading of the StepEnd that produced step record s.
EndOf(s) == s.start.t + s.duration

RECURSIVE IsSubseq(_, _)
IsSubseq(a, b) ==
  IF a = <<>> THEN TRUE
  ELSE IF b = <<>> THEN FALSE
  ELSE IF Head(a) = Head(b) THEN IsSubseq(Tail(a), Tail(b))
  ELSE IsSubseq(a, Tail(b))

\* Step records are in the order of their end events.
EndOrdered(q) ==
  \A i, j \in DOMAIN q : i < j => EndOf(q[i]) < EndOf(q[j])

\* C1: a Test record is appended to completed_tests only while a TestEnd
\* line is handled with a test open whose name is the line's name; the
\* appended test is the one opened by the latest TestStart (none in
\* between), it was not emitted before, and it stops being the current
\* test; superseded tests and a test open at end of input are not emitted.
C1_EmitOnlyOnMatchingEnd ==
  [][ completed_tests' # completed_tests =>
        /\ Handles("TestEnd")
        /\ Parses(line')
        /\ current_test # None
        /\ heap[current_test].name = line'.name
        /\ completed_tests' = Append(completed_tests, current_test)
        /\ \A i \in DOMAIN heap : heap[i].line <= heap[current_test].line
        /\ current_test \notin Elems(completed_tests)
        /\ current_test' = None
        /\ heap'[current_test].status = line'.status
        /\ heap'[current_test].duration =
             line'.ts.clock - heap[current_test].start.t
    ]_vars

\* TEST STARTED a, TEST STARTED a, TEST ENDED a: the second test is emitted,
\* the superseded first one is not.
C1_Witness ==
  /\ completed_tests = <<2>>
  /\ Len(heap) = 2
  /\ heap[1].name = heap[2].name

\* No TestStart lies between the start and the end of step record s.
NoStepAcross(s) ==
  \A j \in DOMAIN heap :
    ~(s.start.t < heap[j].line /\ heap[j].line < EndOf(s))

\* C2: a TestStart line with a parseable timestamp empties step_stack, and
\* no Step record, in all_steps or in a test's steps, starts before and
\* ends after the same TestStart.
C2_NoStepAcrossTestStart ==
  /\ [](\A s \in Elems(all_steps) : NoStepAcross(s))
  /\ [](\A i \in DOMAIN heap : \A s \in Elems(heap[i].steps) : NoStepAcross(s))
  /\ [][ (Handles("TestStart") /\ Parses(line')) => step_stack' = <<>>
     ]_vars

\* A parseable StepEnd was handled after a TestStart that followed a
\* parseable StepStart of the same name.
C2_Witness ==
  /\ line.kind = "StepEnd"
  /\ Parses(line)
  /\ \E e \in Elems(pushed) : \E j \in DOMAIN heap :
       /\ e.name = line.name
       /\ e.start.t < heap[j].line
       /\ heap[j].line < line.ts.clock

\* C3: a StepEnd line whose name is the name of no entry of step_stack
\* changes nothing: step_stack, all_steps, every test's steps, current_test
\* and completed_tests are as before.
C3_UnmatchedStepEndIgnored ==
  [][ (Handles("StepEnd") /\ ~OnStack(step_stack, line'.name)) =>
        /\ UNCHANGED <<step_stack, all_steps, heap, current_test,
                       completed_tests>>
        /\ pc' = "scan"
    ]_vars

\* A parseable StepEnd was handled with a non-empty stack that never held
\* an entry of its name.
C3_Witness ==
  /\ line.kind = "StepEnd"
  /\ Parses(line)
  /\ step_stack # <<>>
  /\ \A e \in Elems(pushed) : e.name # line.name

\* C4 (as claimed): a StepStart/StepEnd pair matched while a test is open
\* is appended as one record, with duration end minus start, both to that
\* test's steps and to all_steps; the steps of every test are a subsequence
\* of all_steps, and both are in the order of the end events.
C4_StepInBothLists ==
  /\ [][ (Handles("StepEnd") /\ Parses(line') /\ current_test # None
          /\ OnStack(step_stack, line'.name)) =>
           \E s \in Elems(all_steps') :
             /\ all_steps' = Append(all_steps, s)
             /\ heap'[current_test].steps =
                  Append(heap[current_test].steps, s)
             /\ s.name = line'.name
             /\ s.duration = line'.ts.clock - s.start.t
       ]_vars
  /\ [](\A i \in DOMAIN heap : IsSubseq(heap[i].steps, all_steps))
  /\ [](EndOrdered(all_steps))
  /\ [](\A i \in DOMAIN heap : EndOrdered(heap[i].steps))

\* C5: a marker line whose timestamp does not parse changes none of
\* current_test, step_stack, completed_tests, all_steps and the test
\* dicts; parse_log_file never raises, and while lines remain it reads on.
C5_BadTimestampSkipped ==
  /\ [][ (line_num' = line_num + 1 /\ IsMarker(line') /\ ~Parses(line')) =>
           UNCHANGED <<current_test, step_stack, completed_tests,
                       all_steps, heap>>
       ]_vars
  /\ [](pc # "raised")
  /\ []((pc = "scan" /\ line_num < MaxLines) => ENABLED OtherLine)
  /\ [][ pc' # pc => (pc = "scan" /\ pc' = "done" /\ UNCHANGED line_num) ]_vars

\* A marker line with a bad timestamp was skipped with a test open and a
\* step on the stack.
C5_Witness ==
  /\ IsMarker(line)
  /\ ~Parses(line)
  /\ current_test # None
  /\ step_stack # <<>>

\* The index of the most recently pushed entry named name.
LastNamed(stack, name) ==
  CHOOSE i \in DOMAIN stack :
    /\ stack[i].name = name
    /\ \A j \in DOMAIN stack : stack[j].name = name => j <= i

\* C8 (as claimed): a StepEnd line whose name occurs on step_stack removes
\* exactly the most recently pushed entry of that name, keeps the others
\* in order, and emits exactly one Step record whose start is the removed
\* entry's start.
C8_StepEndPopsLastAndEmits ==
  [][ (Handles("StepEnd") /\ Parses(line')
       /\ OnStack(step_stack, line'.name)) =>
        LET i == LastNamed(step_stack, line'.name) IN
        /\ step_stack' = SubSeq(step_stack, 1, i - 1)
                           \o SubSeq(step_stack, i + 1, Len(step_stack))
        /\ Len(all_steps') = Len(all_steps) + 1
        /\ all_steps'[Len(all_steps')].start = step_stack[i].start
        /\ all_steps'[Len(all_steps')].name = line'.name
    ]_vars

C10_EndMarkersAtomic ==
  [][ ((Handles("TestEnd") \/ Handles("StepEnd")) /\ Parses(line')) =>
        /\ (Len(step_stack') < Len(step_stack)) <=>
             (Len(all_steps') > Len(all_steps))
        /\ (current_test' # current_test
            \/ (current_test # None
                /\ [heap'[current_test] EXCEPT !.steps = <<>>]
                     # [heap[current_test] EXCEPT !.steps = <<>>])) <=>
             (Len(completed_tests') > Len(completed_tests))
        /\ (all_steps' = all_steps /\ completed_tests' = completed_tests) =>
             UNCHANGED <<current_test, step_stack, heap>>
    ]_vars

\* ======================================================= print_histogram
\* The bucket the claim gives value x: the k in 0..bins-1 with
\* k * bin_width <= x - min < (k + 1) * bin_width, and bins-1 beyond.
InBucket(x, k) ==
  LET lo == SeqMin(data)
      w == SeqMax(data) - lo
  IN /\ k \in 0..(bins - 1)
     /\ k * w <= (x - lo) * bins
     /\ (k < bins - 1) => (x - lo) * bins < (k + 1) * w

\* C7: with min # max every value is counted in exactly one bucket, the
\* one of index floor((value - min) / bin_width) clamped to bins-1, which
\* is in 0..bins-1; the maximum is counted in bucket bins-1; the counts
\* sum to the number of values; with no data or min = max nothing is
\* computed or printed.
C7_HistogramBuckets ==
  /\ [][ hi' = hi + 1 =>
           \E k \in 0..(bins - 1) :
             /\ InBucket(data[hi'], k)
             /\ data[hi'] = SeqMax(data) => k = bins - 1
             /\ buckets' = [buckets EXCEPT ![k + 1] = @ + 1]
       ]_vars
  /\ [](hpc # "raised")
  /\ [](hpc = "count" => (Len(buckets) = bins /\ SeqSum(buckets) = hi))
  /\ []((hpc = "done" /\ printed # <<>>) =>
          /\ SeqSum(buckets) = Len(data)
          /\ SeqMin(data) # SeqMax(data))
  /\ []((hpc = "done" /\ (data = <<>> \/ SeqMin(data) = SeqMax(data))) =>
          (buckets = <<>> /\ printed = <<>>))
  /\ []((hpc = "done" /\ data # <<>> /\ SeqMin(data) # SeqMax(data)) =>
          printed # <<>>)

\* A histogram of the default 20 buckets was printed whose last bucket
\* holds the maximum and whose other values fell between bucket bounds.
C7_Witness ==
  /\ hpc = "done"
  /\ bins = DefaultBins
  /\ Len(printed) = 4
  /\ buckets[bins] = 1
  /\ buckets[1] = 1

\* ====================================================== smart-clean main
\* The answer is y or yes, in any case.
SaysYes(inp) ==
  /\ ~inp.eof
  /\ \E w \in {<<"y">>, <<"y", "e", "s">>} :
       /\ Len(inp.text) = Len(w)
       /\ \A i \in DOMAIN w : inp.text[i] \in {w[i], "Y", "E", "S"}
       /\ \A i \in DOMAIN w : LowerChar(inp.text[i]) = w[i]

\* The answer is y or yes, in any case, between any number of blanks.
SaysYesPadded(inp) ==
  /\ ~inp.eof
  /\ \E i, j \in DOMAIN inp.text :
       /\ SaysYes([eof |-> FALSE, text |-> SubSeq(inp.text, i, j)])
       /\ \A k \in DOMAIN inp.text : (k < i \/ k > j) => inp.text[k] = Blank

BucketItems(b) == IF b = "high" THEN high_confidence ELSE other

AttemptedPaths(b) ==
  LET Of(a) == a.bucket = b
      sel == SelectSeq(attempts, Of)
  IN [i \in DOMAIN sel |-> sel[i].path]

\* The claim of C6, yes being the inputs that count as "answered y or yes".
C6_Body(yes) ==
  /\ \A i \in DOMAIN attempts :
       /\ \E j \in DOMAIN prompts :
            /\ prompts[j].bucket = attempts[i].bucket
            /\ prompts[j].input \in yes
       /\ attempts[i].path \in Elems(BucketItems(attempts[i].bucket))
  /\ \A j \in DOMAIN prompts :
       ~prompts[j].input \in yes => AttemptedPaths(prompts[j].bucket) = <<>>
  /\ (cpc # "start" /\ result.returncode # 0) =>
       (prompts = <<>> /\ attempts = <<>> /\ cpc \in {"ran", "exit1"})
  /\ cpc = "done" =>
       \A j \in DOMAIN prompts :
         prompts[j].input \in yes =>
           AttemptedPaths(prompts[j].bucket) = BucketItems(prompts[j].bucket)

====
